---- MODULE Spec2Model ----
(***************************************************************************)
(* Model of the Bubble server-side action "Create a List of Things"        *)
(* (src/actions/AAJ-850mm/server.js).                                      *)
(*                                                                         *)
(* Text is a sequence of one-character strings.  A JavaScript value is a   *)
(* node [t, s, items]: t is the type tag, s the text of a string/number,   *)
(* items the elements of an array or the members (t = "kv") of an object.  *)
(* Property order of objects is insertion order; the engine's reordering   *)
(* of integer-like keys is not modelled (no input uses such keys).         *)
(* Intermediate results are passed as operator parameters (the locals of   *)
(* the code), which keeps every definition small.                          *)
(***************************************************************************)
EXTENDS Integers, Sequences, FiniteSets, TLC

VARIABLES pc, properties, context, list, lines, ndjsonBody, requested_count,
          httpCalls, payload, output, thrown, fnOut

vars == <<pc, properties, context, list, lines, ndjsonBody, requested_count,
          httpCalls, payload, output, thrown, fnOut>>

(* ---------------------------------------------------------------------- *)
(* Bounds of the explored inputs                                           *)
(* ---------------------------------------------------------------------- *)
\* longest raw string enumerated exhaustively for the tokenizer
MaxLen == 3
\* most columns of a generated column set
MaxCols == 2
\* by how many rows the largest inputs exceed the default ceiling
MaxExtraRows == 1

(* ---------------------------------------------------------------------- *)
(* JavaScript values                                                       *)
(* ---------------------------------------------------------------------- *)
Node(t, s, items) == [t |-> t, s |-> s, items |-> items]
Str(s) == Node("str", s, <<>>)
Num(s) == Node("num", s, <<>>)
Bool(s) == Node("bool", s, <<>>)
Null == Node("null", <<>>, <<>>)
Undef == Node("undef", <<>>, <<>>)
Arr(items) == Node("arr", <<>>, items)
Obj(members) == Node("obj", <<>>, members)
KV(k, v) == Node("kv", k, <<v>>)
\* an object JSON.stringify cannot serialize (circular reference)
Circ == Node("circ", <<>>, <<>>)

Q == "\""
SQ == "'"
BS == "\\"
NL == "\n"
CR == "\r"
WS == {" ", NL, CR, "\t"}
Digits == {"0", "1", "2", "3", "4", "5", "6", "7", "8", "9"}
DigitSeq == <<"0", "1", "2", "3", "4", "5", "6", "7", "8", "9">>

TxtNull == <<"n", "u", "l", "l">>
TxtTrue == <<"t", "r", "u", "e">>
TxtFalse == <<"f", "a", "l", "s", "e">>
TxtUndefined == <<"u", "n", "d", "e", "f", "i", "n", "e", "d">>
TxtObject == <<"[", "o", "b", "j", "e", "c", "t", " ", "O", "b", "j", "e", "c", "t", "]">>
TxtKey == <<"k", "e", "y">>
TxtValue == <<"v", "a", "l", "u", "e">>
TxtStatus == <<"s", "t", "a", "t", "u", "s">>
TxtSuccess == <<"s", "u", "c", "c", "e", "s", "s">>
TxtError == <<"e", "r", "r", "o", "r">>
TxtRaw == <<"r", "a", "w">>
TxtId == <<"i", "d">>
TxtPrefix == <<"_", "p", "_">>
TxtComma == <<",">>

Max2(a, b) == IF a >= b THEN a ELSE b
MinOf(S) == CHOOSE x \in S : \A y \in S : x <= y
MaxOf(S) == CHOOSE x \in S : \A y \in S : x >= y

RECURSIVE ToDec(_)
\* decimal text of a natural number, as template interpolation prints it
ToDec(n) == IF n < 10 THEN <<DigitSeq[n + 1]>>
            ELSE ToDec(n \div 10) \o <<DigitSeq[(n % 10) + 1]>>

RECURSIVE Join(_, _)
\* Array.prototype.join
Join(ss, sep) ==
    IF ss = <<>> THEN <<>>
    ELSE IF Len(ss) = 1 THEN ss[1]
    ELSE Join(SubSeq(ss, 1, Len(ss) \div 2), sep) \o sep
           \o Join(SubSeq(ss, Len(ss) \div 2 + 1, Len(ss)), sep)

Flatten(ss) == Join(ss, <<>>)

\* positions of the characters of s that are not whitespace
Inked(s) == {i \in 1..Len(s) : s[i] \notin WS}

TrimLeftAt(s, ink) == IF ink = {} THEN <<>> ELSE SubSeq(s, MinOf(ink), Len(s))
TrimRightAt(s, ink) == IF ink = {} THEN <<>> ELSE SubSeq(s, 1, MaxOf(ink))
TrimAt(s, ink) == IF ink = {} THEN <<>> ELSE SubSeq(s, MinOf(ink), MaxOf(ink))

TrimLeft(s) == TrimLeftAt(s, Inked(s))
TrimRight(s) == TrimRightAt(s, Inked(s))
\* String.prototype.trim
Trim(s) == TrimAt(s, Inked(s))

StartsWith(s, p) == Len(s) >= Len(p) /\ SubSeq(s, 1, Len(p)) = p

\* start positions >= p of the occurrences of d in s
Occurrences(s, d, p) ==
    {i \in p..(Len(s) - Len(d) + 1) : SubSeq(s, i, i + Len(d) - 1) = d}

RECURSIVE SplitFrom(_, _, _), SplitAt(_, _, _, _)
\* parts of s from index p around the non-overlapping leftmost occurrences of d
SplitFrom(s, d, p) == SplitAt(s, d, p, Occurrences(s, d, p))
SplitAt(s, d, p, occ) ==
    IF occ = {} THEN <<SubSeq(s, p, Len(s))>>
    ELSE <<SubSeq(s, p, MinOf(occ) - 1)>> \o SplitFrom(s, d, MinOf(occ) + Len(d))

\* String.prototype.split on a literal separator d (d # <<>>)
SplitLit(s, d) == SplitFrom(s, d, 1)

\* the parts of a comma split with the whitespace next to each comma removed
CommaParts(raw) ==
    [i \in 1..Len(raw) |->
       IF i > 1 /\ i < Len(raw) THEN Trim(raw[i])
       ELSE IF i > 1 THEN TrimLeft(raw[i])
       ELSE IF i < Len(raw) THEN TrimRight(raw[i])
       ELSE raw[i]]

\* s.split(/\s*,\s*/): the whitespace around each comma belongs to the separator
SplitComma(s) == CommaParts(SplitLit(s, TxtComma))

\* the parts of a "\n" split without the "\r" that ended them
LineParts(raw) ==
    [i \in 1..Len(raw) |->
       IF i < Len(raw) /\ raw[i] # <<>> /\ raw[i][Len(raw[i])] = CR
       THEN SubSeq(raw[i], 1, Len(raw[i]) - 1) ELSE raw[i]]

\* s.split(/\r?\n/)
SplitLines(s) == LineParts(SplitLit(s, <<NL>>))

(* ---------------------------------------------------------------------- *)
(* Library semantics: truthiness, String(), JSON.parse, JSON.stringify,    *)
(* String.prototype.split with a regular expression                        *)
(* ---------------------------------------------------------------------- *)
Truthy(v) == CASE v.t = "str" -> v.s # <<>>
               [] v.t = "num" -> v.s # <<"0">>
               [] v.t = "bool" -> v.s = TxtTrue
               [] v.t \in {"null", "undef"} -> FALSE
               [] OTHER -> TRUE

RECURSIVE StringOf(_)
\* String(v)
StringOf(v) ==
    CASE v.t \in {"str", "num", "bool"} -> v.s
      [] v.t = "null" -> TxtNull
      [] v.t = "undef" -> TxtUndefined
      [] v.t = "arr" ->
           Join([i \in 1..Len(v.items) |->
                   IF v.items[i].t \in {"null", "undef"} THEN <<>>
                   ELSE StringOf(v.items[i])], TxtComma)
      [] OTHER -> TxtObject

ParseFail == [ok |-> FALSE, v |-> Null, next |-> 0]
ParseOk(v, next) == [ok |-> TRUE, v |-> v, next |-> next]

RECURSIVE SkipWs(_, _)
SkipWs(s, i) == IF i <= Len(s) /\ s[i] \in WS THEN SkipWs(s, i + 1) ELSE i

RECURSIVE ParseString(_, _, _)
\* the characters of a JSON string literal from index i (after the opening quote)
ParseString(s, i, acc) ==
    IF i > Len(s) THEN ParseFail
    ELSE IF s[i] = Q THEN ParseOk(Str(acc), i + 1)
    ELSE IF s[i] \in {NL, CR, "\t"} THEN ParseFail
    ELSE IF s[i] # BS THEN ParseString(s, i + 1, Append(acc, s[i]))
    ELSE IF i + 1 > Len(s) \/ s[i + 1] \notin {"n", "r", "t", Q, BS, "/"} THEN ParseFail
    ELSE ParseString(s, i + 2,
                     Append(acc, CASE s[i + 1] = "n" -> NL
                                   [] s[i + 1] = "r" -> CR
                                   [] s[i + 1] = "t" -> "\t"
                                   [] OTHER -> s[i + 1]))

RECURSIVE DigitsEnd(_, _)
DigitsEnd(s, i) == IF i <= Len(s) /\ s[i] \in Digits THEN DigitsEnd(s, i + 1) ELSE i

\* the number whose digits are s[d..e-1] and whose text starts at i
NumberAt(s, i, d, e) ==
    IF e = d THEN ParseFail
    ELSE IF s[d] = "0" /\ e > d + 1 THEN ParseFail
    ELSE IF s[d] = "0" THEN ParseOk(Num(<<"0">>), e)
    ELSE ParseOk(Num(SubSeq(s, i, e - 1)), e)

\* a JSON integer: -? (0 | [1-9][0-9]*); fractions and exponents are not modelled
ParseNumber(s, i) ==
    IF s[i] = "-" THEN NumberAt(s, i, i + 1, DigitsEnd(s, i + 1))
    ELSE NumberAt(s, i, i, DigitsEnd(s, i))

ParseWord(s, i, w, v) ==
    IF i + Len(w) - 1 <= Len(s) /\ SubSeq(s, i, i + Len(w) - 1) = w
    THEN ParseOk(v, i + Len(w)) ELSE ParseFail

RECURSIVE PutMember(_, _, _)
\* obj[k] = v: replaces the value in place, or appends a new property
PutMember(members, k, v) ==
    IF members = <<>> THEN <<KV(k, v)>>
    ELSE IF Head(members).s = k THEN <<KV(k, v)>> \o Tail(members)
    ELSE <<Head(members)>> \o PutMember(Tail(members), k, v)

RECURSIVE ParseValue(_, _), ParseElems(_, _, _), ElemsAfter(_, _, _, _),
          ParseMembers(_, _, _), MemberKey(_, _, _), MemberValue(_, _, _, _),
          MembersAfter(_, _, _, _, _), ParseOpen(_, _, _)
ParseValue(s, i) ==
    IF i > Len(s) THEN ParseFail
    ELSE CASE s[i] = Q -> ParseString(s, i + 1, <<>>)
           [] s[i] \in {"[", "{"} -> ParseOpen(s, s[i], SkipWs(s, i + 1))
           [] s[i] \in Digits \cup {"-"} -> ParseNumber(s, i)
           [] s[i] = "t" -> ParseWord(s, i, TxtTrue, Bool(TxtTrue))
           [] s[i] = "f" -> ParseWord(s, i, TxtFalse, Bool(TxtFalse))
           [] s[i] = "n" -> ParseWord(s, i, TxtNull, Null)
           [] OTHER -> ParseFail

\* an array or object whose first token after the bracket is at j
ParseOpen(s, open, j) ==
    IF open = "["
    THEN IF j <= Len(s) /\ s[j] = "]" THEN ParseOk(Arr(<<>>), j + 1)
         ELSE ParseElems(s, j, <<>>)
    ELSE IF j <= Len(s) /\ s[j] = "}" THEN ParseOk(Obj(<<>>), j + 1)
         ELSE ParseMembers(s, j, <<>>)

ParseElems(s, i, acc) == ElemsAfter(s, acc, ParseValue(s, SkipWs(s, i)), 0)

\* after the element r: a comma and more elements, or the closing bracket
ElemsAfter(s, acc, r, j) ==
    IF ~r.ok THEN ParseFail
    ELSE IF j = 0 THEN ElemsAfter(s, acc, r, SkipWs(s, r.next))
    ELSE IF j > Len(s) THEN ParseFail
    ELSE IF s[j] = "," THEN ParseElems(s, j + 1, Append(acc, r.v))
    ELSE IF s[j] = "]" THEN ParseOk(Arr(Append(acc, r.v)), j + 1)
    ELSE ParseFail

ParseMembers(s, i, acc) == MemberKey(s, acc, SkipWs(s, i))

\* a member starts with its key, a string literal at ki
MemberKey(s, acc, ki) ==
    IF ki <= Len(s) /\ s[ki] = Q
    THEN MemberValue(s, acc, ParseString(s, ki + 1, <<>>), 0)
    ELSE ParseFail

\* after the key k: a colon (at c) and the value
MemberValue(s, acc, k, c) ==
    IF ~k.ok THEN ParseFail
    ELSE IF c = 0 THEN MemberValue(s, acc, k, SkipWs(s, k.next))
    ELSE IF c <= Len(s) /\ s[c] = ":"
    THEN MembersAfter(s, acc, k.v.s, ParseValue(s, SkipWs(s, c + 1)), 0)
    ELSE ParseFail

\* after the member k: r, a comma and more members, or the closing brace
MembersAfter(s, acc, k, r, j) ==
    IF ~r.ok THEN ParseFail
    ELSE IF j = 0 THEN MembersAfter(s, acc, k, r, SkipWs(s, r.next))
    ELSE IF j > Len(s) THEN ParseFail
    ELSE IF s[j] = "," THEN ParseMembers(s, j + 1, PutMember(acc, k, r.v))
    ELSE IF s[j] = "}" THEN ParseOk(Obj(PutMember(acc, k, r.v)), j + 1)
    ELSE ParseFail

\* r when the value r is followed by nothing but whitespace
WholeText(s, r) == IF r.ok /\ SkipWs(s, r.next) = Len(s) + 1 THEN r ELSE ParseFail

\* JSON.parse(s): ok is FALSE where JSON.parse throws a SyntaxError
ParseJson(s) == WholeText(s, ParseValue(s, SkipWs(s, 1)))

RECURSIVE Serializable(_)
\* FALSE where JSON.stringify(v) throws a TypeError
Serializable(v) ==
    /\ v.t # "circ"
    /\ \A i \in 1..Len(v.items) : Serializable(v.items[i])

QuoteJson(s) ==
    <<Q>> \o Flatten([i \in 1..Len(s) |->
                CASE s[i] = Q -> <<BS, Q>>
                  [] s[i] = BS -> <<BS, BS>>
                  [] s[i] = NL -> <<BS, "n">>
                  [] s[i] = CR -> <<BS, "r">>
                  [] s[i] = "\t" -> <<BS, "t">>
                  [] OTHER -> <<s[i]>>]) \o <<Q>>

\* the members JSON.stringify writes: those whose value is not undefined
Written(members) == SelectSeq(members, LAMBDA m : m.items[1].t # "undef")

RECURSIVE Stringify(_), StringifyMembers(_)
\* JSON.stringify(v) for a serializable v that is not undefined
Stringify(v) ==
    CASE v.t = "str" -> QuoteJson(v.s)
      [] v.t \in {"num", "bool"} -> v.s
      [] v.t = "arr" ->
           <<"[">> \o Join([i \in 1..Len(v.items) |->
                              IF v.items[i].t = "undef" THEN TxtNull
                              ELSE Stringify(v.items[i])], TxtComma) \o <<"]">>
      [] v.t = "obj" -> <<"{">> \o StringifyMembers(Written(v.items)) \o <<"}">>
      [] OTHER -> TxtNull

StringifyMembers(ms) ==
    Join([i \in 1..Len(ms) |->
            QuoteJson(ms[i].s) \o <<":">> \o Stringify(ms[i].items[1])], TxtComma)

\* the characters of regular-expression syntax that escapeRegex protects
RegexSpecial == {".", "*", "+", "?", "^", "$", "{", "}", "(", ")", "|", "[", "]", BS}

RECURSIVE RegexAlts(_, _, _)
\* the alternatives of a pattern made of literals, escapes and top-level "|"
RegexAlts(p, cur, acc) ==
    IF p = <<>> THEN Append(acc, cur)
    ELSE IF Head(p) = BS /\ Len(p) >= 2
         THEN RegexAlts(SubSeq(p, 3, Len(p)), Append(cur, p[2]), acc)
    ELSE IF Head(p) = "|" THEN RegexAlts(Tail(p), <<>>, Append(acc, cur))
    ELSE RegexAlts(Tail(p), Append(cur, Head(p)), acc)

\* the alternatives that match s at the 0-based position q
Matching(s, q, alts) ==
    {i \in 1..Len(alts) :
       /\ q + Len(alts[i]) <= Len(s)
       /\ SubSeq(s, q + 1, q + Len(alts[i])) = alts[i]}

FirstMatchEnd(q, alts, hit) == IF hit = {} THEN -1 ELSE q + Len(alts[MinOf(hit)])

\* end index (exclusive, 0-based) of the regex match at 0-based q, or -1
RegexMatchEnd(s, q, alts) == FirstMatchEnd(q, alts, Matching(s, q, alts))

\* the scan positions from p whose match does not end at p
SplitPoints(s, alts, p) ==
    {q \in p..(Len(s) - 1) :
       RegexMatchEnd(s, q, alts) \notin {-1, p}}

RECURSIVE RegexSplitFrom(_, _, _), RegexSplitAt(_, _, _, _)
\* the loop of String.prototype.split from the 0-based part start p
RegexSplitFrom(s, alts, p) == RegexSplitAt(s, alts, p, SplitPoints(s, alts, p))
RegexSplitAt(s, alts, p, qs) ==
    IF qs = {} THEN <<SubSeq(s, p + 1, Len(s))>>
    ELSE <<SubSeq(s, p + 1, MinOf(qs))>>
           \o RegexSplitFrom(s, alts, RegexMatchEnd(s, MinOf(qs), alts))

\* s.split(new RegExp(pattern, "g")) for a non-empty s
RegexSplit(s, pattern) == RegexSplitFrom(s, RegexAlts(pattern, <<>>, <<>>), 0)

(* ---------------------------------------------------------------------- *)
(* Helpers of the action (server.js lines 19-64)                           *)
(* ---------------------------------------------------------------------- *)
\* toStr = v => String(v == null ? "" : v)
toStr(v) == IF v.t \in {"null", "undef"} THEN <<>> ELSE StringOf(v)

\* escapeRegex: a backslash before every regex metacharacter
escapeRegex(s) ==
    Flatten([i \in 1..Len(s) |->
               IF s[i] \in RegexSpecial THEN <<BS, s[i]>> ELSE <<s[i]>>])

\* the trimmed text t without its pair of outer quotes, if it has one
stripQuotes(t) ==
    IF Len(t) >= 1 /\ ((t[1] = Q /\ t[Len(t)] = Q) \/ (t[1] = SQ /\ t[Len(t)] = SQ))
    THEN SubSeq(t, 2, Len(t) - 1)
    ELSE t

stripOuterQuotes(s) == stripQuotes(Trim(s))

\* parts.map(x => stripOuterQuotes(toStr(x))).map(x => x.trim())
\*      .filter(x => x.length || x === "") || [""]
cleanParts(parts) ==
    SelectSeq([i \in 1..Len(parts) |-> Trim(stripOuterQuotes(parts[i]))],
              LAMBDA x : Len(x) > 0 \/ x = <<>>)

\* the delimiter splitValueList splits on: delimiter || ","
effectiveDelimiter(delimiter) == IF Truthy(delimiter) THEN delimiter ELSE Str(TxtComma)

NotArray == [ok |-> FALSE, items |-> <<>>]

\* Array.isArray(arr) after a JSON.parse that did not throw
asArray(r) == IF r.ok /\ r.v.t = "arr" THEN [ok |-> TRUE, items |-> r.v.items] ELSE NotArray

\* the JSON-array attempt on a trimmed text: s.startsWith("[") and JSON.parse(s)
jsonArrayOf(s) == IF StartsWith(s, <<"[">>) THEN asArray(ParseJson(s)) ELSE NotArray

\* arr.map(x => stripOuterQuotes(toStr(x))), or [""] for an empty array
arrayTokens(items) ==
    IF Len(items) > 0
    THEN [i \in 1..Len(items) |-> stripOuterQuotes(toStr(items[i]))]
    ELSE << <<>> >>

\* a variant without the comma fallback: the custom-delimiter parts are always used
splitDelimitedNoFallback(s, parts) == cleanParts(parts)

\* the custom-delimiter split when it gives more than one part, else the comma split
splitDelimited(s, parts) ==
    IF Len(parts) > 1 THEN cleanParts(parts) ELSE cleanParts(SplitComma(s))

\* splitValueList on a non-empty trimmed text whose JSON-array attempt gave ja
splitNonEmpty(s, ja, delimiter) ==
    IF ja.ok THEN arrayTokens(ja.items)
    ELSE splitDelimited(s, RegexSplit(s, escapeRegex(effectiveDelimiter(delimiter).s)))

splitTrimmed(s, delimiter) ==
    IF s = <<>> THEN << <<>> >> ELSE splitNonEmpty(s, jsonArrayOf(s), delimiter)

splitValueList(raw, delimiter) == splitTrimmed(Trim(toStr(raw)), delimiter)

throwsTrimmed(s, delimiter) ==
    /\ s # <<>>
    /\ ~jsonArrayOf(s).ok
    /\ effectiveDelimiter(delimiter).t # "str"

\* TRUE where splitValueList throws: escapeRegex calls .replace on a delimiter
\* that is not a string
splitValueListThrows(raw, delimiter) == throwsTrimmed(Trim(toStr(raw)), delimiter)

(* ---------------------------------------------------------------------- *)
(* Row building (server.js lines 68-108)                                   *)
(* ---------------------------------------------------------------------- *)
\* the value of obj[name] at a position where the property is
MemberAt(obj, hits) == IF hits = {} THEN Undef ELSE obj.items[MinOf(hits)].items[1]

\* obj[name], undefined when obj has no such property
Get(obj, name) ==
    IF obj.t = "obj"
    THEN MemberAt(obj, {i \in 1..Len(obj.items) : obj.items[i].s = name})
    ELSE Undef

ElemsOf(v) == IF v.t = "arr" THEN v.items ELSE <<>>

\* toStr(p.key).trim()
keyOf(p) == Trim(toStr(Get(p, TxtKey)))

\* .filter(p => p && p.key != null), then the pairs whose trimmed key is not empty
survivingPairs(pairs) ==
    SelectSeq(ElemsOf(pairs),
              LAMBDA p : /\ Truthy(p)
                         /\ Get(p, TxtKey).t \notin {"null", "undef"}
                         /\ keyOf(p) # <<>>)

\* cols: [{ key: k, values }]
columnsFrom(sp, delimiter) ==
    [i \in 1..Len(sp) |->
       [key |-> keyOf(sp[i]), values |-> splitValueList(Get(sp[i], TxtValue), delimiter)]]

columnsOf(pairs, delimiter) == columnsFrom(survivingPairs(pairs), delimiter)

RECURSIVE putAll(_, _)
\* the object after obj[k] = v for each [key, val] of entries, in order
putAll(members, entries) ==
    IF entries = <<>> THEN members
    ELSE putAll(PutMember(members, Head(entries).key, Str(Head(entries).val)),
                Tail(entries))

\* persistentObj[k] = processedValues[0] || ""
persistentFrom(sp, delimiter) ==
    putAll(<<>>, [i \in 1..Len(sp) |->
                    [key |-> keyOf(sp[i]),
                     val |-> splitValueList(Get(sp[i], TxtValue), delimiter)[1]]])

persistentObjOf(persistentPairs, delimiter) ==
    persistentFrom(survivingPairs(persistentPairs), delimiter)

RECURSIVE maxValuesLen(_)
\* cols.reduce((m, c) => Math.max(m, c.values.length), 0)
maxValuesLen(cols) ==
    IF cols = <<>> THEN 0
    ELSE Max2(Len(cols[Len(cols)].values), maxValuesLen(SubSeq(cols, 1, Len(cols) - 1)))

\* a variant that recycles the tokens of a short column instead of padding
valueAtRecycled(values, i) == values[((i - 1) % Len(values)) + 1]

\* c.values[i] !== undefined ? c.values[i] : "" (i is 1-based here)
valueAt(values, i) == IF i <= Len(values) THEN values[i] ELSE <<>>

\* the object of row i: the persistent values, then each column's value
rowObject(cols, persistentObj, i) ==
    Obj(putAll(persistentObj,
               [c \in 1..Len(cols) |->
                  [key |-> cols[c].key, val |-> valueAt(cols[c].values, i)]]))

rowLines(cols, persistentObj, rowCount) ==
    [lines |-> [i \in 1..rowCount |-> Stringify(rowObject(cols, persistentObj, i))],
     count |-> rowCount]

buildFrom(cols, persistentObj) ==
    IF Len(cols) = 0 THEN [lines |-> <<>>, count |-> 0]
    ELSE rowLines(cols, persistentObj, maxValuesLen(cols))

buildJsonlFromKeyLists(pairs, delimiter, persistentPairs) ==
    buildFrom(columnsOf(pairs, delimiter), persistentObjOf(persistentPairs, delimiter))

throwsFrom(sp, pp, delimiter) ==
    \/ \E i \in 1..Len(sp) : splitValueListThrows(Get(sp[i], TxtValue), delimiter)
    \/ /\ Len(sp) > 0
       /\ \E i \in 1..Len(pp) : splitValueListThrows(Get(pp[i], TxtValue), delimiter)

\* TRUE where buildJsonlFromKeyLists throws (a splitValueList call throws)
buildJsonlThrows(pairs, delimiter, persistentPairs) ==
    throwsFrom(survivingPairs(pairs), survivingPairs(persistentPairs), delimiter)

(* ---------------------------------------------------------------------- *)
(* NDJSON normalisation (server.js lines 111-136)                          *)
(* ---------------------------------------------------------------------- *)
\* TRUE where toJsonlLines throws: JSON.stringify of an unserializable value
toJsonlLinesThrows(input) ==
    \/ /\ input.t = "arr"
       /\ \E i \in 1..Len(input.items) :
             /\ input.items[i].t \notin {"null", "undef", "str"}
             /\ Trim(StringOf(input.items[i])) # <<>>
             /\ ~Serializable(input.items[i])
    \/ input.t = "circ"
    \/ input.t = "obj" /\ ~Serializable(input)

\* .map(x => typeof x === "string" ? x : JSON.stringify(x))
parsedLines(kept) ==
    [i \in 1..Len(kept) |-> IF kept[i].t = "str" THEN kept[i].s ELSE Stringify(kept[i])]

\* .map(x => typeof x === "string" ? x.trim() : JSON.stringify(x))
arrayLines(kept) ==
    [i \in 1..Len(kept) |->
       IF kept[i].t = "str" THEN Trim(kept[i].s) ELSE Stringify(kept[i])]

\* .map(l => l.trim()).filter(Boolean)
trimFilter(lns) ==
    SelectSeq([i \in 1..Len(lns) |-> Trim(lns[i])], LAMBDA l : l # <<>>)

\* a non-empty trimmed text: the elements of its JSON array, or its lines
textLinesOf(s, ja) ==
    IF ja.ok
    THEN parsedLines(SelectSeq(ja.items, LAMBDA x : x.t \notin {"null", "undef"}))
    ELSE trimFilter(SplitLines(s))

textLines(s) == IF s = <<>> THEN <<>> ELSE textLinesOf(s, jsonArrayOf(s))

toJsonlLines(input) ==
    CASE input.t = "str" -> textLines(Trim(input.s))
      [] input.t = "arr" ->
           arrayLines(SelectSeq(input.items,
                                LAMBDA x : /\ x.t \notin {"null", "undef"}
                                           /\ Trim(StringOf(x)) # <<>>))
      [] input.t = "obj" -> <<Stringify(input)>>
      [] OTHER -> <<>>

(* ---------------------------------------------------------------------- *)
(* Configuration (server.js lines 5-16)                                    *)
(* ---------------------------------------------------------------------- *)
NoValue == [none |-> TRUE]

\* the default row ceiling
DefaultMaxCount == 25

UpperCase == <<"A", "B", "C", "D", "E", "F", "G", "H", "I", "J", "K", "L", "M", "N", "O", "P", "Q", "R", "S", "T", "U", "V", "W", "X", "Y", "Z">>
LowerCase == <<"a", "b", "c", "d", "e", "f", "g", "h", "i", "j", "k", "l", "m", "n", "o", "p", "q", "r", "s", "t", "u", "v", "w", "x", "y", "z">>

\* String.prototype.toLowerCase
ToLowerCase(s) ==
    [i \in 1..Len(s) |->
       IF \E j \in 1..26 : UpperCase[j] = s[i]
       THEN LowerCase[CHOOSE j \in 1..26 : UpperCase[j] = s[i]]
       ELSE s[i]]

RECURSIVE FromDec(_)
\* value of a non-empty digit text
FromDec(s) ==
    IF Len(s) = 1 THEN (CHOOSE j \in 1..10 : DigitSeq[j] = s[1]) - 1
    ELSE 10 * FromDec(SubSeq(s, 1, Len(s) - 1))
           + (CHOOSE j \in 1..10 : DigitSeq[j] = s[Len(s)]) - 1

NaN == [nan |-> TRUE, n |-> 0]
Number(n) == [nan |-> FALSE, n |-> n]

\* the number a trimmed text denotes (integers only)
NumberOfText(s) ==
    IF s = <<>> THEN Number(0)
    ELSE IF \A i \in 1..Len(s) : s[i] \in Digits THEN Number(FromDec(s))
    ELSE IF Len(s) > 1 /\ s[1] = "-" /\ \A i \in 2..Len(s) : s[i] \in Digits
    THEN Number(0 - FromDec(Tail(s)))
    ELSE NaN

\* Number(v); nan is TRUE where it is NaN
NumberOf(v) ==
    CASE v.t = "null" -> Number(0)
      [] v.t = "bool" -> Number(IF v.s = TxtTrue THEN 1 ELSE 0)
      [] v.t = "num" -> NumberOfText(v.s)
      [] v.t = "str" -> NumberOfText(Trim(v.s))
      [] OTHER -> NaN

\* a variant that ignores the configured ceiling
positiveOrDefault(n, default) == default

positiveOr(n, default) == IF ~n.nan /\ n.n > 0 THEN n.n ELSE default

\* MAX_COUNT = Number(properties.max_count) > 0 ? Number(properties.max_count) : 25
MAX_COUNT(props) == positiveOr(NumberOf(props.max_count), DefaultMaxCount)

\* valueDelimiter = properties.key_delimiter || ","
valueDelimiter(props) ==
    IF Truthy(props.key_delimiter) THEN props.key_delimiter ELSE Str(TxtComma)

\* apiToken = properties.apiToken || context.keys.appAPIKey
apiToken(props, ctx) == IF Truthy(props.apiToken) THEN props.apiToken ELSE ctx.appAPIKey

\* usingKeys = (properties.keys_or_raw ?? "").toString().toLowerCase() === "keys"
usingKeys(props) ==
    ToLowerCase(IF props.keys_or_raw.t \in {"null", "undef"} THEN <<>>
                ELSE StringOf(props.keys_or_raw)) = <<"k", "e", "y", "s">>

(* ---------------------------------------------------------------------- *)
(* Messages: a template literal is the sequence of its pieces              *)
(* ---------------------------------------------------------------------- *)
Lit(x) == [lit |-> x, txt |-> <<>>]
Txt(s) == [lit |-> "", txt |-> s]

MsgJsonKeys == <<Lit("json_keys must be a non-empty array of {key, value} in Keys mode.")>>
MsgNoRows == <<Lit("No rows could be formed from the provided key/value lists.")>>
MsgTooManyKeys(count, max) ==
    <<Lit("Too many rows from key lists: "), Txt(ToDec(count)),
      Lit(". Max allowed is "), Txt(ToDec(max)), Lit(".")>>
MsgEmptyBody == <<Lit("NDJSON body is empty. Provide 'ndjson' (text/array), 'items' (text/array), or 'ndjson_list' (list of text/objects).")>>
MsgTooManyNdjson(count, max) ==
    <<Lit("Too many NDJSON rows: "), Txt(ToDec(count)),
      Lit(". Max allowed is "), Txt(ToDec(max)), Lit(".")>>
MsgThingType == <<Lit("thingType is required.")>>
MsgToken == <<Lit("Missing Bubble API token.")>>
MsgBulkFailed(body) == <<Lit("Bubble bulk create failed: "), Txt(body)>>
MsgGeneric == <<Lit("An error occurred while creating items.")>>

\* the object the validation early returns give
validationError(msg) == [returned_error |-> TRUE, error_message |-> msg]

Return(out, lns) == [kind |-> "return", output |-> out, lines |-> lns, body |-> <<>>]
Throw == [kind |-> "throw", output |-> NoValue, lines |-> <<>>, body |-> <<>>]
Dispatch(lns, body) == [kind |-> "dispatch", output |-> NoValue, lines |-> lns, body |-> body]

\* lines.join("\n")
joinLines(lns) == Join(lns, <<NL>>)

\* "Validate basics" (lines 187-188), then the request is ready to dispatch
validateBasics(props, ctx, lns) ==
    IF ~Truthy(props.object_type_text) THEN Return(validationError(MsgThingType), lns)
    ELSE IF ~Truthy(apiToken(props, ctx)) THEN Return(validationError(MsgToken), lns)
    ELSE Dispatch(lns, joinLines(lns))

\* requested_count = ndjsonBody.split(/\r?\n/).filter(l => l && l.trim() !== "").length
requestedCountOf(body) ==
    Len(SelectSeq(SplitLines(body), LAMBDA l : l # <<>> /\ Trim(l) # <<>>))

(* ---------------------------------------------------------------------- *)
(* Keys mode (server.js lines 141-158)                                     *)
(* ---------------------------------------------------------------------- *)
\* x || []
orEmptyArray(v) == IF Truthy(v) THEN v ELSE Arr(<<>>)

\* the checks on the built rows (lines 152-158), then the common validation
keysBuilt(props, ctx, built, max) ==
    IF built.count = 0 THEN Return(validationError(MsgNoRows), built.lines)
    ELSE IF built.count > max
    THEN Return(validationError(MsgTooManyKeys(built.count, max)), built.lines)
    ELSE validateBasics(props, ctx, built.lines)

keysChecked(props, ctx, keyPairs, persistentKeyPairs, delimiter) ==
    IF keyPairs.t # "arr" \/ Len(keyPairs.items) = 0
    THEN Return(validationError(MsgJsonKeys), <<>>)
    ELSE IF buildJsonlThrows(keyPairs, delimiter, persistentKeyPairs) THEN Throw
    ELSE keysBuilt(props, ctx,
                   buildJsonlFromKeyLists(keyPairs, delimiter, persistentKeyPairs),
                   MAX_COUNT(props))

keysOutcome(props, ctx) ==
    keysChecked(props, ctx, orEmptyArray(props.json_keys),
                orEmptyArray(props.json_keys_persistent), valueDelimiter(props))

(* ---------------------------------------------------------------------- *)
(* JSONL mode (server.js lines 161-183)                                    *)
(* ---------------------------------------------------------------------- *)
\* properties.x !== undefined ? properties.x : null
orNull(v) == IF v.t = "undef" THEN Null ELSE v

\* ndjson_list is used when it is truthy and its length is a function
isBubbleList(v) == v.t \in {"list", "listLengthFails", "listGetFails"}

\* if (x !== null) lines = lines.concat(toJsonlLines(x))
sourceLines(x) == IF x.t # "null" THEN toJsonlLines(x) ELSE <<>>

\* the checks on the final lines (lines 176-183), then the common validation
jsonlGathered(props, ctx, final, max) ==
    IF Len(final) = 0 THEN Return(validationError(MsgEmptyBody), final)
    ELSE IF Len(final) > max
    THEN Return(validationError(MsgTooManyNdjson(Len(final), max)), final)
    ELSE validateBasics(props, ctx, final)

\* a variant that takes the items source before the ndjson source
jsonlFromItemsFirst(props, ctx, fromList, fromNdjson, fromItems) ==
    IF toJsonlLinesThrows(fromNdjson) \/ toJsonlLinesThrows(fromItems) THEN Throw
    ELSE jsonlGathered(props, ctx,
                       trimFilter(fromList \o sourceLines(fromItems) \o sourceLines(fromNdjson)),
                       MAX_COUNT(props))

jsonlFrom(props, ctx, fromList, fromNdjson, fromItems) ==
    IF toJsonlLinesThrows(fromNdjson) \/ toJsonlLinesThrows(fromItems) THEN Throw
    ELSE jsonlGathered(props, ctx,
                       trimFilter(fromList \o sourceLines(fromNdjson) \o sourceLines(fromItems)),
                       MAX_COUNT(props))

\* JSONL mode from the lines of the list source to its return, throw or POST
jsonlOutcome(props, ctx, fromList) ==
    jsonlFrom(props, ctx, fromList, orNull(props.ndjson), orNull(props.items))

\* lines = lines.concat(toJsonlLines(list)), then the rest of JSONL mode
listOutcome(props, ctx, listArr) ==
    IF toJsonlLinesThrows(listArr) THEN Throw
    ELSE jsonlOutcome(props, ctx, toJsonlLines(listArr))

(* ---------------------------------------------------------------------- *)
(* Response parsing and reconciliation (server.js lines 195-259)           *)
(* ---------------------------------------------------------------------- *)
\* { status: "error", raw: l }
degraded(l) == Obj(<<KV(TxtStatus, Str(TxtError)), KV(TxtRaw, Str(l))>>)

lineResult(l, r) == IF r.ok THEN r.v ELSE degraded(l)

\* l => { try { return JSON.parse(l); } catch { return { status: "error", raw: l }; } }
parseLine(l) == lineResult(l, ParseJson(l))

\* a variant in which one unparsable line aborts the parsing of all lines
lineResultsAbort(lns) ==
    IF \E i \in 1..Len(lns) : ~ParseJson(lns[i]).ok THEN <<>>
    ELSE [i \in 1..Len(lns) |-> ParseJson(lns[i]).v]

\* trimmed.split("\n").filter(Boolean).map(...)
lineResults(lns) == [i \in 1..Len(lns) |-> parseLine(lns[i])]

resultsFrom(raw, trimmed, whole) ==
    [kind |-> "results",
     raw |-> raw,
     results |-> IF Len(whole) = 0 /\ Len(trimmed) > 0
                 THEN lineResults(SelectSeq(SplitLit(trimmed, <<NL>>), LAMBDA l : l # <<>>))
                 ELSE whole]

parseRaw(raw, trimmed) == resultsFrom(raw, trimmed, jsonArrayOf(trimmed).items)

\* the payload of a 2xx response whose data is `data` (lines 207-219)
parseResponse(data) ==
    IF data.t = "str" THEN parseRaw(data.s, Trim(data.s)) ELSE parseRaw(<<>>, <<>>)

\* the Error the callback receives when axios.post rejects (lines 220-225)
transportError(err) ==
    [kind |-> "error",
     message |-> MsgBulkFailed(IF err.response.t = "str" THEN err.response.s
                               ELSE IF err.message # <<>> THEN err.message
                               ELSE <<"E", "r", "r", "o", "r">>)]

\* a variant that does not look at the id
isSuccessStatusOnly(r) == Truthy(r) /\ Get(r, TxtStatus) = Str(TxtSuccess)

\* r && r.status === "success" && r.id
isSuccess(r) == Truthy(r) /\ Get(r, TxtStatus) = Str(TxtSuccess) /\ Truthy(Get(r, TxtId))

\* Object.entries(obj || {})
entriesOf(v) ==
    CASE v.t = "obj" -> v.items
      [] v.t = "arr" -> [i \in 1..Len(v.items) |-> KV(ToDec(i - 1), v.items[i])]
      [] v.t = "str" -> [i \in 1..Len(v.s) |-> KV(ToDec(i - 1), Str(<<v.s[i]>>))]
      [] OTHER -> <<>>

RECURSIVE prefixEntries(_, _)
\* mapped[`_p_${k}`] = v for each entry
prefixEntries(mapped, entries) ==
    IF entries = <<>> THEN mapped
    ELSE prefixEntries(PutMember(mapped, TxtPrefix \o Head(entries).s, Head(entries).items[1]),
                       Tail(entries))

createdDataOf(results) ==
    [i \in 1..Len(results) |-> Obj(prefixEntries(<<>>, entriesOf(results[i])))]

\* successes.map(s => String(s.id))
successIdsOf(successes) ==
    [i \in 1..Len(successes) |-> StringOf(Get(successes[i], TxtId))]

outputOf(props, requested, results, successes) ==
    [returned_error |-> FALSE,
     requested_count |-> requested,
     created_count |-> Len(successes),
     created_ids |-> successIdsOf(successes),
     created_data |-> createdDataOf(results),
     object_type_text |-> props.object_type,
     created_data_id |-> successIdsOf(successes)]

\* the .then handler's return value (lines 229-252)
successOutput(props, pl, requested) ==
    outputOf(props, requested, pl.results, SelectSeq(pl.results, isSuccess))

\* the .catch handler's return value (lines 253-259)
failureOutput(props, pl) ==
    [returned_error |-> TRUE,
     error_message |-> IF pl.message # <<>> THEN pl.message ELSE MsgGeneric,
     object_type_text |-> props.object_type]

(* ---------------------------------------------------------------------- *)
(* Inputs explored                                                         *)
(* ---------------------------------------------------------------------- *)
Pair(k, v) == Obj(<<KV(TxtKey, k), KV(TxtValue, v)>>)

\* "x,x,...,x": n tokens
RepeatTokens(n) == Join([i \in 1..n |-> <<"x">>], <<",">>)
\* n lines "x"
RepeatLines(n) == Join([i \in 1..n |-> <<"x">>], <<NL>>)

OverCeiling == DefaultMaxCount + MaxExtraRows

KeyPairsPool ==
    { Arr(<<Pair(Str(<<"n", "a", "m", "e">>), Str(<<"x", ",", "y", ",", "z">>)), Pair(Str(<<"a", "g", "e">>), Str(<<"1", ",", "2">>))>>),
      Arr(<<Pair(Str(<<"a">>), Str(<<"x", "|", "y">>)), Pair(Str(<<" ", "a", " ">>), Str(<<"1">>))>>),
      Arr(<<Pair(Str(<<" ", " ">>), Str(<<"x">>))>>),
      Arr(<<>>),
      Undef,
      Str(<<"n", "a", "m", "e">>),
      Arr(<<Pair(Str(<<"s", "o", "u", "r", "c", "e">>), Str(<<"c", "o", "l">>)), Pair(Str(<<"n">>), Str(<<"1", ",", "2">>))>>),
      Arr(<<Pair(Str(<<"n">>), Str(RepeatTokens(DefaultMaxCount)))>>),
      Arr(<<Pair(Str(<<"n">>), Str(RepeatTokens(OverCeiling)))>>),
      Arr(<<Null, Pair(Null, Str(<<"q">>)), Pair(Str(<<"n">>), Str(<<"[", "\"", "a", "\"", ",", "\"", "b", ",", "c", "\"", "]">>))>>),
      Arr(<<Pair(Str(<<"n">>), Str(<<>>))>>) }

PersistentPool ==
    { Undef,
      Arr(<<Pair(Str(<<"s", "o", "u", "r", "c", "e">>), Str(<<"w", "e", "b", ",", " ", "m", "o", "b", "i", "l", "e">>))>>),
      Arr(<<Pair(Str(<<"s", "o", "u", "r", "c", "e">>), Str(<<"a">>)), Pair(Str(<<"s", "o", "u", "r", "c", "e">>), Str(<<"'", "b", "'">>)),
            Pair(Str(<<" ">>), Str(<<"z">>))>>) }

\* a string, nothing, or a number where a string is expected
DelimiterPool == { Undef, Str(<<"|">>), Num(<<"5">>) }

MaxCountPool == { Undef, Num(<<"2">>), Str(<<"1">>), Num(<<"0">>) }

\* a Bubble list: length() and get() are asynchronous and may reject
BubbleList(elems) == Node("list", <<>>, elems)
ListLengthFails == Node("listLengthFails", <<>>, <<>>)
ListGetFails == Node("listGetFails", <<>>, <<Str(<<"x">>)>>)

ListPool ==
    { Undef,
      Arr(<<Str(<<"i", "g", "n", "o", "r", "e", "d">>)>>),
      BubbleList(<<>>),
      BubbleList(<<Str(<<" ", " ">>), Obj(<<KV(<<"a">>, Num(<<"1">>))>>), Str(<<"r", "a", "w">>)>>),
      BubbleList(<<Str(<<"l", "1", "\n", "l", "2">>)>>),
      BubbleList(<<Arr(<<>>), Null, Str(<<" ", "l", " ">>)>>),
      BubbleList(<<Circ>>),
      ListLengthFails,
      ListGetFails }

NdjsonPool ==
    { Undef,
      Str(<<>>),
      Str(<<"n", "1", "\r", "\n", "n", "2", "\n", "\n", " ", "n", "3", " ">>),
      Str(<<"[", "\"", "a", "\"", ",", " ", "1", ",", " ", "n", "u", "l", "l", ",", " ", "\"", " ", "\"", ",", " ", "\"", "p", "\\", "n", "q", "\"", "]">>),
      Str(<<"[", "b", "a", "d", "\n", "l", "i", "n", "e">>),
      Str(RepeatLines(DefaultMaxCount)),
      Str(RepeatLines(OverCeiling)) }

ItemsPool ==
    { Undef,
      Obj(<<KV(<<"i">>, Num(<<"1">>))>>),
      Arr(<<Str(<<"c", "1">>), Obj(<<KV(<<"c">>, Num(<<"2">>))>>)>>),
      Circ,
      Num(<<"5">>) }

\* <<object_type_text, apiToken, context.keys.appAPIKey>>
CredentialPool ==
    { <<Str(<<"o", "r", "d", "e", "r">>), Str(<<"t", "o", "k">>), Undef>>,
      <<Str(<<"o", "r", "d", "e", "r">>), Undef, Str(<<"k", "e", "y">>)>>,
      <<Undef, Str(<<"t", "o", "k">>), Undef>>,
      <<Str(<<"o", "r", "d", "e", "r">>), Undef, Undef>> }

Props(mode, del, max, cred, keys, pers, lst, nd, it) ==
    [keys_or_raw |-> mode, key_delimiter |-> del, max_count |-> max,
     object_type_text |-> cred[1], object_type |-> cred[1], apiToken |-> cred[2],
     json_keys |-> keys, json_keys_persistent |-> pers,
     ndjson_list |-> lst, ndjson |-> nd, items |-> it]

Input(props, cred) == [properties |-> props, context |-> [appAPIKey |-> cred[3]]]

KeysInputs ==
    { Input(Props(Str(<<"K", "e", "y", "s">>), del, max, cred, keys, pers, Undef, Undef, Undef), cred) :
        del \in DelimiterPool, max \in MaxCountPool, cred \in CredentialPool,
        keys \in KeyPairsPool, pers \in PersistentPool }

JsonlInputs ==
    { Input(Props(Str(<<"J", "S", "O", "N", "L">>), Undef, max, cred, Undef, Undef, lst, nd, it), cred) :
        max \in MaxCountPool, cred \in CredentialPool,
        lst \in ListPool, nd \in NdjsonPool, it \in ItemsPool }

\* res.data of a 2xx response
ResponsePool ==
    { Str(<<"[", "{", "\"", "s", "t", "a", "t", "u", "s", "\"", ":", "\"", "s", "u", "c", "c", "e", "s", "s", "\"", ",", "\"", "i", "d", "\"", ":", "\"", "1", "\"", "}", ",", "{", "\"", "s", "t", "a", "t", "u", "s", "\"", ":", "\"", "e", "r", "r", "o", "r", "\"", "}", "]">>),
      Str(<<"{", "\"", "s", "t", "a", "t", "u", "s", "\"", ":", "\"", "s", "u", "c", "c", "e", "s", "s", "\"", ",", "\"", "i", "d", "\"", ":", "\"", "1", "\"", "}", "\n", "o", "o", "p", "s", "\n", "{", "\"", "s", "t", "a", "t", "u", "s", "\"", ":", "\"", "s", "u", "c", "c", "e", "s", "s", "\"", ",", "\"", "i", "d", "\"", ":", "\"", "\"", "}">>),
      Str(<<"{", "\"", "s", "t", "a", "t", "u", "s", "\"", ":", "\"", "s", "u", "c", "c", "e", "s", "s", "\"", ",", "\"", "i", "d", "\"", ":", "7", "}", "\r", "\n", "\"", "s", "t", "r", "\"", "\n", "\n", " ", " ", "\n", "{", "\"", "s", "t", "a", "t", "u", "s", "\"", ":", "\"", "S", "u", "c", "c", "e", "s", "s", "\"", ",", "\"", "i", "d", "\"", ":", "\"", "2", "\"", "}">>),
      Str(<<"[", "b", "a", "d", "\n", "5", "\n", "n", "u", "l", "l", "\n", "[", "{", "\"", "s", "t", "a", "t", "u", "s", "\"", ":", "\"", "s", "u", "c", "c", "e", "s", "s", "\"", ",", "\"", "i", "d", "\"", ":", "\"", "3", "\"", "}", "]">>),
      Str(<<"[", "]">>),
      Str(<<>>),
      Undef }

\* what axios.post rejects with: a non-2xx response or a network error
ErrorPool ==
    { [response |-> Str(<<"d", "e", "n", "i", "e", "d">>), message |-> <<"R", "e", "q", "u", "e", "s", "t", " ", "f", "a", "i", "l", "e", "d", " ", "w", "i", "t", "h", " ", "s", "t", "a", "t", "u", "s", " ", "c", "o", "d", "e", " ", "4", "0", "1">>],
      [response |-> Undef, message |-> <<"t", "i", "m", "e", "o", "u", "t">>],
      [response |-> Undef, message |-> <<>>] }

(* ---------------------------------------------------------------------- *)
(* The invocation                                                          *)
(* ---------------------------------------------------------------------- *)
Idle ==
    /\ list = NoValue
    /\ lines = <<>>
    /\ ndjsonBody = <<>>
    /\ requested_count = 0
    /\ httpCalls = 0
    /\ payload = NoValue
    /\ output = NoValue
    /\ thrown = FALSE
    /\ fnOut = NoValue

Init ==
    /\ pc = "start"
    /\ \E inp \in KeysInputs \cup JsonlInputs :
          properties = inp.properties /\ context = inp.context
    /\ Idle

\* the synchronous run from the mode's outcome to a return, a throw or the POST
Finish(outcome) ==
    /\ lines' = outcome.lines
    /\ CASE outcome.kind = "return" ->
              /\ output' = outcome.output
              /\ pc' = "done"
              /\ UNCHANGED <<ndjsonBody, requested_count, httpCalls, thrown>>
         [] outcome.kind = "throw" ->
              /\ thrown' = TRUE
              /\ pc' = "rejected"
              /\ UNCHANGED <<ndjsonBody, requested_count, httpCalls, output>>
         [] OTHER ->
              /\ ndjsonBody' = outcome.body
              /\ requested_count' = requestedCountOf(outcome.body)
              /\ httpCalls' = httpCalls + 1
              /\ pc' = "http"
              /\ UNCHANGED <<output, thrown>>
    /\ UNCHANGED <<properties, context, payload, fnOut>>

\* Keys mode runs synchronously from entry to its return, throw or POST
InvokeKeys ==
    /\ pc = "start"
    /\ usingKeys(properties)
    /\ Finish(keysOutcome(properties, context))
    /\ UNCHANGED list

\* JSONL mode suspends first at `await properties.ndjson_list`
InvokeJsonl ==
    /\ pc = "start"
    /\ ~usingKeys(properties)
    /\ pc' = "awaitList"
    /\ UNCHANGED <<properties, context, list, lines, ndjsonBody, requested_count,
                   httpCalls, payload, output, thrown, fnOut>>

\* without a Bubble list the rest of JSONL mode runs to its return, throw or POST
SkipList ==
    /\ pc = "awaitList"
    /\ ~isBubbleList(properties.ndjson_list)
    /\ Finish(jsonlOutcome(properties, context, <<>>))
    /\ UNCHANGED list

\* with a Bubble list, length() is called and awaited
CallLength ==
    /\ pc = "awaitList"
    /\ isBubbleList(properties.ndjson_list)
    /\ pc' = "awaitLength"
    /\ UNCHANGED <<properties, context, list, lines, ndjsonBody, requested_count,
                   httpCalls, payload, output, thrown, fnOut>>

\* length() rejects: the invocation rejects
LengthRejects ==
    /\ pc = "awaitLength"
    /\ properties.ndjson_list.t = "listLengthFails"
    /\ Finish(Throw)
    /\ UNCHANGED list

\* length() resolves to 0: list = [], and the rest of JSONL mode runs
LengthZero ==
    /\ pc = "awaitLength"
    /\ properties.ndjson_list.t # "listLengthFails"
    /\ Len(properties.ndjson_list.items) = 0
    /\ list' = Arr(<<>>)
    /\ Finish(listOutcome(properties, context, Arr(<<>>)))

\* length() resolves to a positive number: get(0, len) is called and awaited
LengthPositive ==
    /\ pc = "awaitLength"
    /\ properties.ndjson_list.t # "listLengthFails"
    /\ Len(properties.ndjson_list.items) > 0
    /\ pc' = "awaitGet"
    /\ UNCHANGED <<properties, context, list, lines, ndjsonBody, requested_count,
                   httpCalls, payload, output, thrown, fnOut>>

GetRejects ==
    /\ pc = "awaitGet"
    /\ properties.ndjson_list.t = "listGetFails"
    /\ Finish(Throw)
    /\ UNCHANGED list

GetResolves ==
    /\ pc = "awaitGet"
    /\ properties.ndjson_list.t = "list"
    /\ list' = Arr(properties.ndjson_list.items)
    /\ Finish(listOutcome(properties, context, Arr(properties.ndjson_list.items)))

\* axios.post resolves with a 2xx response: the body is parsed, callback(null, ...)
HttpResolves ==
    /\ pc = "http"
    /\ \E data \in ResponsePool : payload' = parseResponse(data)
    /\ pc' = "then"
    /\ UNCHANGED <<properties, context, list, lines, ndjsonBody, requested_count,
                   httpCalls, output, thrown, fnOut>>

\* a variant that posts again after a failed call
HttpRejectsRetry ==
    /\ pc = "http"
    /\ httpCalls < 3
    /\ httpCalls' = httpCalls + 1
    /\ UNCHANGED <<pc, properties, context, list, lines, ndjsonBody, requested_count,
                   payload, output, thrown, fnOut>>

\* axios.post rejects: callback(new Error(...))
HttpRejects ==
    /\ pc = "http"
    /\ \E err \in ErrorPool : payload' = transportError(err)
    /\ pc' = "catch"
    /\ UNCHANGED <<properties, context, list, lines, ndjsonBody, requested_count,
                   httpCalls, output, thrown, fnOut>>

ThenHandler ==
    /\ pc = "then"
    /\ output' = successOutput(properties, payload, requested_count)
    /\ pc' = "done"
    /\ UNCHANGED <<properties, context, list, lines, ndjsonBody, requested_count,
                   httpCalls, payload, thrown, fnOut>>

CatchHandler ==
    /\ pc = "catch"
    /\ output' = failureOutput(properties, payload)
    /\ pc' = "done"
    /\ UNCHANGED <<properties, context, list, lines, ndjsonBody, requested_count,
                   httpCalls, payload, thrown, fnOut>>

Next ==
    \/ InvokeKeys
    \/ InvokeJsonl
    \/ SkipList
    \/ CallLength
    \/ LengthRejects
    \/ LengthZero
    \/ LengthPositive
    \/ GetRejects
    \/ GetResolves
    \/ HttpResolves
    \/ HttpRejects
    \/ ThenHandler
    \/ CatchHandler

Spec == Init /\ [][Next]_vars

(* ---------------------------------------------------------------------- *)
(* The tokenizer on its own: every short raw string, each delimiter        *)
(* ---------------------------------------------------------------------- *)
TokChars == {"a", "1", ",", "|", " ", Q, "[", "]"}

RECURSIVE TextsUpTo(_, _)
\* every text over chars of length at most n
TextsUpTo(chars, n) ==
    IF n = 0 THEN {<<>>}
    ELSE TextsUpTo(chars, n - 1)
           \cup {Append(t, c) : t \in TextsUpTo(chars, n - 1), c \in chars}

TokSamples ==
    { <<"[", "\"", "a", "\"", ",", "\"", "b", ",", "c", "\"", "]">>, <<"a", ",", "b", ",", "c">>, <<"[", "1", ",", " ", "\"", "a", "|", "b", "\"", ",", " ", "n", "u", "l", "l", ",", " ", "[", "2", ",", "3", "]", "]">>,
      <<" ", "'", "a", "'", " ", "|", " ", "\"", "b", "\"", " ", "|", "c", ",", "d">>, <<"[", " ", "]">>, <<"[", "\"", " ", "q", " ", "\"", "]">>, <<"a", " ", ",", " ", "b">>, <<"[", "a", "|", "b">> }

TokDelimiters == { Str(<<",">>), Str(<<"|">>), Str(<<"1", "|">>), Str(<<>>) }

TokInit ==
    /\ pc = "tok"
    /\ \E s \in TextsUpTo(TokChars, MaxLen) \cup TokSamples, d \in TokDelimiters :
          properties = [raw |-> Str(s), delimiter |-> d]
    /\ context = NoValue
    /\ Idle

Tokenize ==
    /\ pc = "tok"
    /\ fnOut' = splitValueList(properties.raw, properties.delimiter)
    /\ pc' = "tokDone"
    /\ UNCHANGED <<properties, context, list, lines, ndjsonBody, requested_count,
                   httpCalls, payload, output, thrown>>

TokNext == Tokenize

TokSpec == TokInit /\ [][TokNext]_vars

(* ---------------------------------------------------------------------- *)
(* The row builder on its own: every column set of at most MaxCols columns *)
(* ---------------------------------------------------------------------- *)
RowKeys == { Str(<<"a">>), Str(<<" ", "a">>), Str(<<"b">>), Str(<<" ", " ">>) }
RowValues == { Str(<<"x", ",", "y", ",", "z">>), Str(<<"1", "|", "2">>), Str(<<>>) }
RowPairs == { Pair(k, v) : k \in RowKeys, v \in RowValues }

RECURSIVE SeqsUpTo(_, _)
\* every sequence over S of length at most n
SeqsUpTo(S, n) ==
    IF n = 0 THEN {<<>>}
    ELSE SeqsUpTo(S, n - 1) \cup {Append(t, x) : t \in SeqsUpTo(S, n - 1), x \in S}

RowPersistent ==
    { Undef,
      Arr(<<Pair(Str(<<"a">>), Str(<<"w", "e", "b">>))>>),
      Arr(<<Pair(Str(<<"s", "o", "u", "r", "c", "e">>), Str(<<"w", "1", ",", "w", "2">>)), Pair(Str(<<" ">>), Str(<<"z">>))>>),
      Arr(<<Pair(Str(<<"s", "o", "u", "r", "c", "e">>), Str(<<"p">>)), Pair(Str(<<"b">>), Str(<<"n">>)),
            Pair(Str(<<"s", "o", "u", "r", "c", "e", " ">>), Str(<<"'", "q", "'", "|", "r">>))>>) }

RowInit ==
    /\ pc = "rows"
    /\ \E cols \in SeqsUpTo(RowPairs, MaxCols), pers \in RowPersistent,
          d \in {Undef, Str(<<"|">>)} :
          properties = [pairs |-> Arr(cols), delimiter |-> d, persistentPairs |-> pers]
    /\ context = NoValue
    /\ Idle

BuildRows ==
    /\ pc = "rows"
    /\ fnOut' = buildJsonlFromKeyLists(properties.pairs, properties.delimiter,
                                       properties.persistentPairs)
    /\ pc' = "rowsDone"
    /\ UNCHANGED <<properties, context, list, lines, ndjsonBody, requested_count,
                   httpCalls, payload, output, thrown>>

RowNext == BuildRows

RowSpec == RowInit /\ [][RowNext]_vars

(* ====================================================================== *)
(* Properties                                                              *)
(* ====================================================================== *)

(* ---- C5: the tokenizer's steps --------------------------------------- *)
C5_raw == Trim(properties.raw.s)
C5_del == IF properties.delimiter.s = <<>> THEN TxtComma ELSE properties.delimiter.s
C5_parsed == ParseJson(C5_raw)
C5_isArray == StartsWith(C5_raw, <<"[">>) /\ C5_parsed.ok /\ C5_parsed.v.t = "arr"
C5_elements ==
    [i \in 1..Len(C5_parsed.v.items) |-> stripOuterQuotes(toStr(C5_parsed.v.items[i]))]
\* each part without its wrapping quotes and surrounding whitespace
C5_clean(parts) == [i \in 1..Len(parts) |-> Trim(stripOuterQuotes(parts[i]))]
C5_byDelimiter == SplitLit(C5_raw, C5_del)
C5_byComma == SplitLit(C5_raw, TxtComma)

\* C5 as stated: the tokens are never empty and are chosen by the first step that
\* applies: (1) blank input gives one empty token; (2) input starting with "[" that
\* parses as a NON-EMPTY JSON array gives its elements; (3) the literal split on the
\* delimiter if it gives more than one part; (4) otherwise the comma split.
C5_AsClaimed ==
    pc = "tokDone" =>
      /\ Len(fnOut) > 0
      /\ fnOut = IF C5_raw = <<>> THEN << <<>> >>
                 ELSE IF C5_isArray /\ Len(C5_parsed.v.items) > 0 THEN C5_elements
                 ELSE IF Len(C5_byDelimiter) > 1 THEN C5_clean(C5_byDelimiter)
                 ELSE C5_clean(C5_byComma)

\* C5 amended: as C5, except that step (2) takes every input that parses as a JSON
\* array, and an empty array gives one empty token (it is not split any further).
C5_Tokenizer ==
    pc = "tokDone" =>
      /\ Len(fnOut) > 0
      /\ fnOut = IF C5_raw = <<>> THEN << <<>> >>
                 ELSE IF C5_isArray
                      THEN IF Len(C5_parsed.v.items) > 0 THEN C5_elements ELSE << <<>> >>
                 ELSE IF Len(C5_byDelimiter) > 1 THEN C5_clean(C5_byDelimiter)
                 ELSE C5_clean(C5_byComma)

\* the comma fallback fires for the delimiter "|" on "a,b,c"
C5_Witness ==
    /\ pc = "tokDone"
    /\ properties.raw.s = <<"a", ",", "b", ",", "c">>
    /\ properties.delimiter.s = <<"|">>
    /\ fnOut = << <<"a">>, <<"b">>, <<"c">> >>

(* ---- C6: the row matrix ---------------------------------------------- *)
C6_key(p) == Trim(Get(p, TxtKey).s)
C6_surviving(pairs) == SelectSeq(ElemsOf(pairs), LAMBDA p : C6_key(p) # <<>>)
C6_cols == C6_surviving(properties.pairs)
C6_pers == C6_surviving(properties.persistentPairs)
C6_tokens(p) == splitValueList(Get(p, TxtValue), properties.delimiter)
C6_rowCount ==
    IF C6_cols = <<>> THEN 0
    ELSE MaxOf({Len(C6_tokens(C6_cols[j])) : j \in 1..Len(C6_cols)})
\* the object a row's line denotes
C6_row(i) == ParseJson(fnOut.lines[i]).v
\* the i-th token of the column, or the empty string when it has fewer tokens
C6_cell(p, i) == Str(IF i <= Len(C6_tokens(p)) THEN C6_tokens(p)[i] ELSE <<>>)
C6_last(ps, k) == ps[MaxOf({j \in 1..Len(ps) : C6_key(ps[j]) = k})]
C6_isColumnKey(k) == \E j \in 1..Len(C6_cols) : C6_key(C6_cols[j]) = k
C6_persistentPart(i) ==
    \A j \in 1..Len(C6_pers) :
       ~C6_isColumnKey(C6_key(C6_pers[j])) =>
          Get(C6_row(i), C6_key(C6_pers[j]))
            = Str(C6_tokens(C6_last(C6_pers, C6_key(C6_pers[j])))[1])

ClaimedMax ==
    IF ~NumberOf(properties.max_count).nan /\ NumberOf(properties.max_count).n > 0
    THEN NumberOf(properties.max_count).n
    ELSE 25
HasResponse == "results" \in DOMAIN payload
HasTransportError == "message" \in DOMAIN payload
Mentions(msg, n) == \E i \in 1..Len(msg) : msg[i].txt = ToDec(n)

(* ---- C1: the row ceiling --------------------------------------------- *)
\* C1: in both modes, when the rows built from the input outnumber the maximum
\* (max_count when positive, else 25), the invocation ends with a failure output
\* whose message names the actual count and the maximum, and nothing is posted.
C1_CeilingEnforced ==
    Len(lines) > ClaimedMax =>
      /\ pc = "done"
      /\ httpCalls = 0
      /\ output.returned_error = TRUE
      /\ Mentions(output.error_message, Len(lines))
      /\ Mentions(output.error_message, ClaimedMax)

\* 26 rows from one key list against the default maximum of 25
C1_Witness ==
    /\ pc = "done"
    /\ usingKeys(properties)
    /\ properties.max_count = Undef
    /\ Len(lines) = 26
    /\ httpCalls = 0
    /\ output.error_message[2].txt = <<"2", "6">>
    /\ output.error_message[4].txt = <<"2", "5">>

(* ---- C2: the failure shape ------------------------------------------- *)
\* C2: every failure output has returned_error true, an error message and the
\* record-type echo field.
C2_FailureShape ==
    (pc = "done" /\ output.returned_error) =>
      {"returned_error", "error_message", "object_type_text"} \subseteq DOMAIN output

(* ---- C3: nothing is thrown past the invocation ------------------------ *)
\* C3: for every input the invocation resolves to an output object; it never
\* throws or rejects.
C3_NeverRejects == pc # "rejected" /\ ~thrown

(* ---- C4: at most one POST -------------------------------------------- *)
\* C4: at most one POST per invocation: none when the invocation ends on an input
\* validation failure, exactly one when validation passes; a failed POST is not
\* retried and ends the invocation with one failure output.
C4_AtMostOnePost ==
    /\ httpCalls <= 1
    /\ pc \in {"http", "then", "catch"} => httpCalls = 1
    /\ pc = "done" =>
         /\ (HasResponse \/ HasTransportError) <=> httpCalls = 1
         /\ ~output.returned_error => httpCalls = 1
         /\ httpCalls = 0 => output.returned_error
         /\ HasTransportError => output.returned_error /\ httpCalls = 1

\* a POST failed, was not repeated, and the invocation ended with a failure output
C4_Witness ==
    /\ pc = "done"
    /\ HasTransportError
    /\ httpCalls = 1
    /\ output.returned_error
    /\ output.error_message[2].txt = <<"d", "e", "n", "i", "e", "d">>

(* ---- C7: reconciliation ---------------------------------------------- *)
C7_isSuccess(r) ==
    /\ r.t = "obj"
    /\ \E i \in 1..Len(r.items) : r.items[i].s = TxtStatus /\ r.items[i].items[1] = Str(TxtSuccess)
    /\ \E i \in 1..Len(r.items) : r.items[i].s = TxtId /\ Truthy(r.items[i].items[1])
C7_successes == {i \in 1..Len(payload.results) : C7_isSuccess(payload.results[i])}
\* the n-th successful entry in response order
C7_nth(n) ==
    payload.results[CHOOSE i \in C7_successes :
                      Cardinality({j \in C7_successes : j <= i}) = n]

\* C7: created_count is the number of entries with status "success" and a truthy
\* id; created_ids lists those ids in response order; created_data has one object
\* per entry, in order, holding every key k of the entry as "_p_" + k with its value.
C7_Reconciled ==
    (pc = "done" /\ HasResponse) =>
      /\ output.created_count = Cardinality(C7_successes)
      /\ Len(output.created_ids) = Cardinality(C7_successes)
      /\ \A n \in 1..Cardinality(C7_successes) :
            output.created_ids[n] = StringOf(Get(C7_nth(n), TxtId))
      /\ Len(output.created_data) = Len(payload.results)
      /\ \A i \in 1..Len(payload.results) :
            /\ output.created_data[i].t = "obj"
            /\ payload.results[i].t = "obj" =>
                 /\ Len(output.created_data[i].items) = Len(payload.results[i].items)
                 /\ \A m \in 1..Len(payload.results[i].items) :
                       Get(output.created_data[i], TxtPrefix \o payload.results[i].items[m].s)
                         = payload.results[i].items[m].items[1]

\* the response [{"status":"success","id":"1"},{"status":"error"}]
C7_Witness ==
    /\ pc = "done"
    /\ HasResponse
    /\ Len(payload.results) = 2
    /\ output.created_count = 1
    /\ output.created_ids = << <<"1">> >>
    /\ Get(output.created_data[1], <<"_", "p", "_", "i", "d">>) = Str(<<"1">>)
    /\ Get(output.created_data[2], <<"_", "p", "_", "s", "t", "a", "t", "u", "s">>) = Str(<<"e", "r", "r", "o", "r">>)

(* ---- C8: line-by-line response parsing -------------------------------- *)
C8_trimmed == Trim(payload.raw)
C8_wholeArray ==
    /\ StartsWith(C8_trimmed, <<"[">>)
    /\ ParseJson(C8_trimmed).ok
    /\ Len(ParseJson(C8_trimmed).v.items) > 0
C8_lines == SelectSeq(SplitLit(C8_trimmed, <<NL>>), LAMBDA l : l # <<>>)
C8_entry(l) ==
    IF ParseJson(l).ok THEN ParseJson(l).v
    ELSE Obj(<<KV(TxtStatus, Str(TxtError)), KV(TxtRaw, Str(l))>>)

\* C8: when a 2xx body is parsed line by line, every non-empty line yields one
\* entry in line order, the parsed value or {status: "error", raw: line}; an
\* unparsable line neither stops the parsing nor makes the invocation fail.
C8_LineByLine ==
    (pc \in {"then", "done"} /\ HasResponse /\ C8_trimmed # <<>> /\ ~C8_wholeArray) =>
      /\ Len(payload.results) = Len(C8_lines)
      /\ \A i \in 1..Len(C8_lines) : payload.results[i] = C8_entry(C8_lines[i])
      /\ pc = "done" => output.returned_error = FALSE

\* an unparsable line between two parsed ones
C8_Witness ==
    /\ pc = "done"
    /\ HasResponse
    /\ Len(payload.results) = 3
    /\ payload.results[2] = Obj(<<KV(TxtStatus, Str(TxtError)), KV(TxtRaw, Str(<<"o", "o", "p", "s">>))>>)
    /\ Get(payload.results[3], TxtStatus) = Str(TxtSuccess)
    /\ output.returned_error = FALSE
    /\ output.created_count = 1

(* ---- C9: the JSONL line sequence -------------------------------------- *)
\* an element that is neither null/absent nor blank (its String() trims to "")
C9_kept(x) == x.t \notin {"null", "undef"} /\ Trim(StringOf(x)) # <<>>
C9_line(x) == IF x.t = "str" THEN x.s ELSE Stringify(x)
C9_each(elems) == [i \in 1..Len(elems) |-> C9_line(elems[i])]
C9_fromSequence(elems) == C9_each(SelectSeq(elems, C9_kept))
C9_fromText(s) ==
    IF StartsWith(s, <<"[">>) /\ ParseJson(s).ok
    THEN C9_each(SelectSeq(ParseJson(s).v.items, LAMBDA x : x.t # "null"))
    ELSE SplitLines(s)
C9_fromSource(v) ==
    CASE v.t = "arr" -> C9_fromSequence(v.items)
      [] v.t = "str" -> C9_fromText(Trim(v.s))
      [] v.t = "obj" -> <<Stringify(v)>>
      [] OTHER -> <<>>
C9_listSource ==
    IF properties.ndjson_list.t = "list" THEN Arr(properties.ndjson_list.items) ELSE Undef
C9_concatenated ==
    C9_fromSource(C9_listSource) \o C9_fromSource(properties.ndjson)
      \o C9_fromSource(properties.items)
C9_expected ==
    SelectSeq([i \in 1..Len(C9_concatenated) |-> Trim(C9_concatenated[i])],
              LAMBDA l : l # <<>>)

C10_RequestedCount ==
    httpCalls > 0 =>
      /\ requested_count <= ClaimedMax
      /\ requested_count = Len(lines)

====
